---- MODULE Spec2Model ----
(***************************************************************************)
(* A model of the query/mutation resolution pipeline of the Apollo         *)
(* tutorial server: the launches query with cursor pagination, and the     *)
(* bookTrips / cancelTrip mutations against the user store.                *)
(***************************************************************************)
EXTENDS Integers, Sequences, FiniteSets, Bags, TLC

\* ------------------------------------------------------------------ bounds
MaxLaunches == 3   \* longest upstream launch list
MaxTime     == 3   \* launch_date_unix values range over 1..MaxTime
MaxPageSize == 3   \* explicit pageSize arguments range over 0..MaxPageSize
MaxAcc      == 6   \* a traversal stops accumulating beyond this many launches
MaxIds      == 2   \* longest launchIds list of a bookTrips request
MaxLaunchId == 2   \* launch ids of booking requests range over 1..MaxLaunchId
MaxTokenLen == 4   \* longest Authorization token, in characters
MaxClientLaunches == 42  \* longest launch list the Launches page pages through
MaxInflight == 2   \* most fetchMore requests the page has unanswered at once

\* -------------------------------------------------------- program constants
DefaultPageSize == 20

\* JavaScript null / undefined, as distinct from every string a cursor can be
\* (cursors are decimal numerals, see launchReducer).
Null == "null"

\* The email of the user the booking operations act for, "Q@T", as its
\* character codes.
UserEmail == <<81, 64, 84>>

\* ---------------------------------------------------------------- helpers
Min(a, b) == IF a < b THEN a ELSE b

Range(s) == {s[i] : i \in 1..Len(s)}

Has(rec, field) == field \in DOMAIN rec

\* Array.prototype.reverse
Reverse(s) == [i \in 1..Len(s) |-> s[Len(s) + 1 - i]]

\* All sequences over S of length at most n.
SeqsUpTo(S, n) == UNION {[1..k -> S] : k \in 0..n}

\* The outcome of an asynchronous call: a value, or a rejection.
Ok(v)    == [kind |-> "ok", value |-> v]
Throw(e) == [kind |-> "error", error |-> e]

VARIABLES
  upstream,   \* the REST source: the body GET launches answers with
  trips,      \* the user store: the launch ids the current user has booked
  call,       \* the last operation issued: its name and arguments
  ret,        \* what that operation resolved to
  trav,       \* the paging client: "idle", "more" or "done"
  tsize,      \* the arguments (pageSize) the paging client uses
  tafter,     \* the cursor the paging client passes next
  thasMore,   \* hasMore of the last page the paging client received
  acc,        \* the launches the paging client has accumulated
  users,      \* the user store: the users table, a bag of the rows' emails
  token,      \* the client: the login token it keeps, "" when it has none
  inflight    \* the client: the fetchMore requests not yet answered

vars == <<upstream, trips, call, ret, trav, tsize, tafter, thasMore, acc, users,
          token, inflight>>

\* ----------------------------------------------------- LaunchAPI (REST)
\* The object launchReducer builds from a raw record that carries `links`
\* and `rocket`.  `a || 0` and `a && a.b` yield the absent value when a is
\* absent; a template literal prints an absent timestamp as "undefined".
launchReducer(launch) ==
  [id      |-> IF Has(launch, "flight_number") /\ launch.flight_number # 0
               THEN launch.flight_number ELSE 0,
   cursor  |-> IF Has(launch, "launch_date_unix")
               THEN ToString(launch.launch_date_unix) ELSE "undefined",
   site    |-> IF Has(launch, "launch_site")
               THEN launch.launch_site.site_name ELSE Null,
   mission |-> [name              |-> IF Has(launch, "mission_name")
                                      THEN launch.mission_name ELSE Null,
                missionPatchSmall |-> launch.links.mission_patch_small,
                missionPatchLarge |-> launch.links.mission_patch],
   rocket  |-> [id   |-> launch.rocket.rocket_id,
                name |-> launch.rocket.rocket_name,
                type |-> launch.rocket.rocket_type]]

\* launchReducer as a call: reading a property of an absent `links` or
\* `rocket` raises a TypeError; `launch_site` alone is guarded.
launchReducerCall(launch) ==
  IF ~Has(launch, "links") \/ ~Has(launch, "rocket")
  THEN Throw("TypeError")
  ELSE Ok(launchReducer(launch))

\* getAllLaunches: every record of the response, reduced; [] when the
\* response is not an array.
getAllLaunches(response) ==
  IF response.isArray
  THEN [i \in 1..Len(response.items) |-> launchReducer(response.items[i])]
  ELSE <<>>

\* ------------------------------------------------------------ paginator
\* Index of the first item whose cursor equals c, 0 when there is none.
cursorIndex(results, c) ==
  IF \E i \in 1..Len(results) : results[i].cursor = c
  THEN CHOOSE i \in 1..Len(results) :
         /\ results[i].cursor = c
         /\ \A j \in 1..(i - 1) : results[j].cursor # c
  ELSE 0

\* paginateResults: at most pageSize consecutive items, from index 0 when
\* after is null or matches no item, else right after the matching item.
paginateResults(after, pageSize, results) ==
  LET start == IF after = Null THEN 0 ELSE cursorIndex(results, after)
  IN  SubSeq(results, start + 1, Min(Len(results), start + pageSize))

\* ------------------------------------------------------- Query.launches
\* Variants of the resolver, each differing from it by one slip.

\* hasMore taken from the page being full instead of from the last cursor.
launches_hasMoreWhenFull(args, response) ==
  LET pageSize    == IF Has(args, "pageSize") THEN args.pageSize
                     ELSE DefaultPageSize
      after       == IF Has(args, "after") THEN args.after ELSE Null
      allLaunches == Reverse(getAllLaunches(response))
      page        == paginateResults(after, pageSize, allLaunches)
  IN  Ok([launches |-> page,
          cursor   |-> IF Len(page) # 0 THEN page[Len(page)].cursor ELSE Null,
          hasMore  |-> Len(page) = pageSize])

\* hasMore compared against the first item of all results.
launches_hasMoreAgainstFirst(args, response) ==
  LET pageSize    == IF Has(args, "pageSize") THEN args.pageSize
                     ELSE DefaultPageSize
      after       == IF Has(args, "after") THEN args.after ELSE Null
      allLaunches == Reverse(getAllLaunches(response))
      page        == paginateResults(after, pageSize, allLaunches)
  IN  Ok([launches |-> page,
          cursor   |-> IF Len(page) # 0 THEN page[Len(page)].cursor ELSE Null,
          hasMore  |-> IF Len(page) # 0
                       THEN page[Len(page)].cursor # allLaunches[1].cursor
                       ELSE FALSE])

\* The cursor of the first item of the page instead of the last.
launches_cursorOfFirst(args, response) ==
  LET pageSize    == IF Has(args, "pageSize") THEN args.pageSize
                     ELSE DefaultPageSize
      after       == IF Has(args, "after") THEN args.after ELSE Null
      allLaunches == Reverse(getAllLaunches(response))
      page        == paginateResults(after, pageSize, allLaunches)
  IN  Ok([launches |-> page,
          cursor   |-> IF Len(page) # 0 THEN page[1].cursor ELSE Null,
          hasMore  |-> IF Len(page) # 0
                       THEN page[Len(page)].cursor
                              # allLaunches[Len(allLaunches)].cursor
                       ELSE FALSE])

\* The cursor of the last item of all results instead of the page's.
launches_cursorOfAll(args, response) ==
  LET pageSize    == IF Has(args, "pageSize") THEN args.pageSize
                     ELSE DefaultPageSize
      after       == IF Has(args, "after") THEN args.after ELSE Null
      allLaunches == Reverse(getAllLaunches(response))
      page        == paginateResults(after, pageSize, allLaunches)
  IN  Ok([launches |-> page,
          cursor   |-> IF Len(allLaunches) # 0
                       THEN allLaunches[Len(allLaunches)].cursor ELSE Null,
          hasMore  |-> IF Len(page) # 0
                       THEN page[Len(page)].cursor
                              # allLaunches[Len(allLaunches)].cursor
                       ELSE FALSE])

\* allLaunches.reverse() left out.
launches_notReversed(args, response) ==
  LET pageSize    == IF Has(args, "pageSize") THEN args.pageSize
                     ELSE DefaultPageSize
      after       == IF Has(args, "after") THEN args.after ELSE Null
      allLaunches == getAllLaunches(response)
      page        == paginateResults(after, pageSize, allLaunches)
  IN  Ok([launches |-> page,
          cursor   |-> IF Len(page) # 0 THEN page[Len(page)].cursor ELSE Null,
          hasMore  |-> IF Len(page) # 0
                       THEN page[Len(page)].cursor
                              # allLaunches[Len(allLaunches)].cursor
                       ELSE FALSE])

\* The resolver: fetch all launches, reverse them, paginate, and report the
\* page with the cursor of its last item and the more-results flag.
\* The default page is one launch longer.
launches_longerDefault(args, response) ==
  LET pageSize    == IF Has(args, "pageSize") THEN args.pageSize
                     ELSE DefaultPageSize + 1
      after       == IF Has(args, "after") THEN args.after ELSE Null
      allLaunches == Reverse(getAllLaunches(response))
      page        == paginateResults(after, pageSize, allLaunches)
  IN  Ok([launches |-> page,
          cursor   |-> IF Len(page) # 0 THEN page[Len(page)].cursor ELSE Null,
          hasMore  |-> IF Len(page) # 0
                       THEN page[Len(page)].cursor
                              # allLaunches[Len(allLaunches)].cursor
                       ELSE FALSE])

launches(args, response) ==
  LET pageSize    == IF Has(args, "pageSize") THEN args.pageSize
                     ELSE DefaultPageSize
      after       == IF Has(args, "after") THEN args.after ELSE Null
      allLaunches == Reverse(getAllLaunches(response))
      page        == paginateResults(after, pageSize, allLaunches)
  IN  Ok([launches |-> page,
          cursor   |-> IF Len(page) # 0 THEN page[Len(page)].cursor ELSE Null,
          hasMore  |-> IF Len(page) # 0
                       THEN page[Len(page)].cursor
                              # allLaunches[Len(allLaunches)].cursor
                       ELSE FALSE])

\* ----------------------------------------------------------------- inputs
\* The nested objects of a complete raw record.
LaunchSite == [site_name |-> "KSC LC 39A"]
Links      == [mission_patch_small |-> "small.png", mission_patch |-> "large.png"]
Rocket     == [rocket_id |-> "falcon9", rocket_name |-> "Falcon 9",
               rocket_type |-> "FT"]

\* A complete raw record.
RawLaunch(flight, time) ==
  [flight_number |-> flight, launch_date_unix |-> time, mission_name |-> "m",
   launch_site |-> LaunchSite, links |-> Links, rocket |-> Rocket]

RawLaunches(ts) == [i \in 1..Len(ts) |-> RawLaunch(i, ts[i])]

Upstreams ==
  {[isArray |-> FALSE]}
    \cup {[isArray |-> TRUE, items |-> RawLaunches(ts)] :
            ts \in SeqsUpTo(1..MaxTime, MaxLaunches)}

\* An upstream list longer than the default page: oldest first, two
\* launches more than a page holds.
LongUpstream ==
  [isArray |-> TRUE,
   items   |-> [i \in 1..(DefaultPageSize + 2) |-> RawLaunch(i, i)]]

AfterInputs ==
  {ToString(t) : t \in 0..(MaxTime + 1)}
    \cup {ToString(DefaultPageSize + 2), "", "abc"}

PageSizeArgs == {<<>>} \cup {[pageSize |-> k] : k \in 0..MaxPageSize}

LaunchesArgs ==
  PageSizeArgs
    \cup {[after |-> a] : a \in AfterInputs}
    \cup {[pageSize |-> k, after |-> a] : k \in 0..MaxPageSize, a \in AfterInputs}

NoCall == [op |-> "none"]

\* --------------------------------------------------------------- machine
Init ==
  /\ upstream \in Upstreams
  /\ users = EmptyBag
  /\ token = <<>>
  /\ inflight = <<>>
  /\ trips = {}
  /\ call = NoCall
  /\ ret = NoCall
  /\ trav = "idle"
  /\ tsize = <<>>
  /\ tafter = Null
  /\ thasMore = FALSE
  /\ acc = <<>>

\* The state a one-shot query meets: upstream may also hold the long list.
InitQuery ==
  /\ upstream \in Upstreams \cup {LongUpstream}
  /\ users = EmptyBag
  /\ token = <<>>
  /\ inflight = <<>>
  /\ trips = {}
  /\ call = NoCall
  /\ ret = NoCall
  /\ trav = "idle"
  /\ tsize = <<>>
  /\ tafter = Null
  /\ thasMore = FALSE
  /\ acc = <<>>

\* One launches query with arbitrary arguments.
LaunchesQuery ==
  \E args \in LaunchesArgs :
    /\ call' = [op |-> "launches", args |-> args]
    /\ ret' = launches(args, upstream)
    /\ UNCHANGED <<token, inflight, users, upstream, trips, trav, tsize, tafter, thasMore, acc>>

Next == LaunchesQuery

Spec == InitQuery /\ [][Next]_vars


\* ------------------------------------------------------- paging client
\* A client that pages through the launches: the first query carries no
\* `after`, every further query carries the cursor of the previous page,
\* and the client goes on for as long as hasMore is true.
Receive(r) ==
  IF r.kind = "ok"
  THEN /\ acc' = acc \o r.value.launches
       /\ tafter' = r.value.cursor
       /\ thasMore' = r.value.hasMore
       /\ trav' = IF r.value.hasMore THEN "more" ELSE "done"
  ELSE /\ trav' = "failed"
       /\ UNCHANGED <<acc, tafter, thasMore>>

TraverseFirst ==
  \E size \in PageSizeArgs :
    /\ trav = "idle"
    /\ tsize' = size
    /\ \E r \in {launches(size, upstream)} : Receive(r)
    /\ UNCHANGED <<token, inflight, users, upstream, trips, call, ret>>

TraverseNext ==
  /\ trav = "more"
  /\ Len(acc) < MaxAcc
  /\ \E r \in {launches([a \in DOMAIN tsize \cup {"after"} |->
                          IF a = "after" THEN tafter ELSE tsize[a]], upstream)} :
       Receive(r)
  /\ UNCHANGED <<token, inflight, users, upstream, trips, call, ret, tsize>>

NextTraversal == TraverseFirst \/ TraverseNext

\* The client keeps paging while there is more, so both steps are fair.
SpecTraversal ==
  Init /\ [][NextTraversal]_vars
       /\ WF_vars(TraverseFirst) /\ WF_vars(TraverseNext)

\* ------------------------------------------------------------ properties
\* The sequence the launches query paginates: all launches, reversed.
AllLaunches == Reverse(getAllLaunches(upstream))

DistinctCursors(s) ==
  \A i, j \in 1..Len(s) : i # j => s[i].cursor # s[j].cursor

IsPrefix(s, t) == Len(s) <= Len(t) /\ s = SubSeq(t, 1, Len(s))

PageSizeOf(args) ==
  IF Has(args, "pageSize") THEN args.pageSize ELSE DefaultPageSize

IsLaunchesQuery == call.op = "launches"

\* The cursors the paginated sequence holds.
KnownCursors == {AllLaunches[i].cursor : i \in 1..Len(AllLaunches)}

\* The first n items of the paginated sequence.
FirstItems(n) == SubSeq(AllLaunches, 1, Min(n, Len(AllLaunches)))

\* C1: over an upstream sequence with pairwise distinct cursors and a
\* pageSize of at least 1, the pages of a traversal (no `after` first, then
\* the returned cursor, while hasMore) always concatenate to a prefix of the
\* full reversed sequence, the traversal ends, and when it has ended with
\* hasMore false the concatenation is the full sequence, each launch once
\* and in order.
TraversalCase ==
  /\ trav # "idle"
  /\ DistinctCursors(AllLaunches)
  /\ PageSizeOf(tsize) >= 1

C1_CursorTraversal ==
  /\ [](TraversalCase =>
          /\ trav \in {"more", "done"}
          /\ IsPrefix(acc, AllLaunches)
          /\ thasMore = (trav = "more")
          /\ (trav = "done" => acc = AllLaunches))
  /\ (TraversalCase ~> (trav = "done" /\ ~thasMore /\ acc = AllLaunches))

C1_Witness ==
  /\ TraversalCase
  /\ trav = "done"
  /\ PageSizeOf(tsize) = 1
  /\ Len(acc) = 3
  /\ acc = AllLaunches

\* C2: with pairwise distinct cursors and pageSize k >= 1, a launches query
\* without `after` returns the first min(k, N) launches in order and
\* hasMore = (k < N).
C2_FirstPage ==
  (/\ IsLaunchesQuery
   /\ ~Has(call.args, "after")
   /\ PageSizeOf(call.args) >= 1
   /\ DistinctCursors(AllLaunches))
  => /\ ret.kind = "ok"
     /\ ret.value.launches = FirstItems(PageSizeOf(call.args))
     /\ ret.value.hasMore = (PageSizeOf(call.args) < Len(AllLaunches))

C2_Witness ==
  /\ IsLaunchesQuery
  /\ ~Has(call.args, "after")
  /\ PageSizeOf(call.args) = 2
  /\ Len(AllLaunches) = 3
  /\ DistinctCursors(AllLaunches)
  /\ Len(ret.value.launches) = 2
  /\ ret.value.hasMore

\* C3: hasMore is true iff the page is non-empty and the cursor of its last
\* item differs from the cursor of the last item of the full sequence.
C3_HasMore ==
  IsLaunchesQuery =>
    /\ ret.kind = "ok"
    /\ ret.value.hasMore =
         (/\ ret.value.launches # <<>>
          /\ ret.value.launches[Len(ret.value.launches)].cursor
               # AllLaunches[Len(AllLaunches)].cursor)

C3_Witness ==
  /\ IsLaunchesQuery
  /\ Has(call.args, "after")
  /\ call.args.after \in KnownCursors
  /\ Len(ret.value.launches) = 1
  /\ ret.value.launches[1].cursor = AllLaunches[Len(AllLaunches)].cursor
  /\ ~ret.value.hasMore

\* C4: a launches query whose `after` equals no item's cursor does not
\* fail and returns the page starting at index 0, the same connection as
\* the query without `after`.
C4_UnknownCursor ==
  (/\ IsLaunchesQuery
   /\ Has(call.args, "after")
   /\ call.args.after \notin KnownCursors)
  => /\ ret.kind = "ok"
     /\ ret.value.launches = FirstItems(PageSizeOf(call.args))
     /\ ret = launches([a \in DOMAIN call.args \ {"after"} |-> call.args[a]],
                       upstream)

C4_Witness ==
  /\ IsLaunchesQuery
  /\ Has(call.args, "after")
  /\ call.args.after \notin KnownCursors
  /\ Len(AllLaunches) = 3
  /\ Len(ret.value.launches) = 2
  /\ ret.value.launches[1] = AllLaunches[1]

C6_CursorNonNull ==
  IsLaunchesQuery => (ret.kind = "ok" /\ ret.value.cursor # Null)


\* ----------------------------------------------- LaunchAPI: lookup by id
\* GET launches?flight_number=X: the records with that flight number, none
\* when the body is not an array.
getByFlightNumber(response, launchId) ==
  IF response.isArray
  THEN SelectSeq(response.items, LAMBDA l : l.flight_number = launchId)
  ELSE <<>>

\* What awaiting this.get gives when the REST source cannot be reached:
\* no body, the request rejects.
Unavailable == [isArray |-> FALSE, failed |-> TRUE]

\* getLaunchById: a rejected request rejects the lookup; otherwise
\* launchReducer(response[0]), and reading a field of the undefined
\* response[0] raises a TypeError.
getLaunchById(launchId, response) ==
  LET found == getByFlightNumber(response, launchId)
  IN  IF Has(response, "failed") THEN Throw("FetchError")
      ELSE IF found = <<>> THEN Throw("TypeError")
      ELSE launchReducerCall(found[1])

\* getLaunchesByIds: Promise.all over getLaunchById, in request order; it
\* rejects with the first lookup that rejects.
getLaunchesByIds(launchIds, response) ==
  LET lookups  == [i \in 1..Len(launchIds) |->
                     getLaunchById(launchIds[i], response)]
      rejected == {i \in 1..Len(launchIds) : lookups[i].kind = "error"}
  IN  IF rejected # {}
      THEN lookups[CHOOSE i \in rejected : \A j \in rejected : i <= j]
      ELSE Ok([i \in 1..Len(launchIds) |-> lookups[i].value])

\* ------------------------------------------------------------ user store
\* What userAPI.bookTrips answers: nothing at all, or the ids it booked.
Absent == [present |-> FALSE]
Booked(ids) == [present |-> TRUE, ids |-> ids]

\* The requested ids the store confirms, in request order: entry i of the
\* request is booked when confirm[i] holds.
RECURSIVE confirmedIds(_, _)
confirmedIds(launchIds, confirm) ==
  IF launchIds = <<>> THEN <<>>
  ELSE LET n == Len(launchIds)
           front == confirmedIds(SubSeq(launchIds, 1, n - 1), confirm)
       IN  IF confirm[n] THEN Append(front, launchIds[n]) ELSE front

\* userAPI.bookTrips: each requested id is tried in turn and added to the
\* user's trips when the store confirms it; the answer lists the ids booked.
userAPI_bookTrips(launchIds, confirm) == Booked(confirmedIds(launchIds, confirm))

\* userAPI.cancelTrip: true when a booking of launchId was removed.
userAPI_cancelTrip(launchId, booked) == launchId \in booked

\* ---------------------------------------------------- Mutation.bookTrips
SuccessMessage == "trips booked successfully"
FailurePrefix  == "the following launches couldn't be booked: "

\* launchIds.filter((id) => !results.includes(id))
notIncluded(launchIds, ids) ==
  SelectSeq(launchIds, LAMBDA id : id \notin Range(ids))

\* A variant that reads back only the launches the store booked.
Mutation_bookTrips_readsBackBooked(launchIds, results, response) ==
  LET launchesRead == getLaunchesByIds(IF results.present THEN results.ids
                                       ELSE launchIds, response)
  IN  IF launchesRead.kind = "error" THEN launchesRead
      ELSE IF ~results.present THEN Throw("TypeError")
      ELSE Ok([success  |-> results.present /\ Len(results.ids) = Len(launchIds),
               message  |-> IF Len(results.ids) = Len(launchIds)
                            THEN [text |-> SuccessMessage, ids |-> <<>>]
                            ELSE [text |-> FailurePrefix,
                                  ids  |-> notIncluded(launchIds, results.ids)],
               launches |-> launchesRead.value])

\* The resolver, after the store has answered `results`: read the launches
\* back, then build {success, message, launches}.  `results.length` in the
\* message raises a TypeError when results is absent.
Mutation_bookTrips(launchIds, results, response) ==
  LET launchesRead == getLaunchesByIds(launchIds, response)
  IN  IF launchesRead.kind = "error" THEN launchesRead
      ELSE IF ~results.present THEN Throw("TypeError")
      ELSE Ok([success  |-> results.present /\ Len(results.ids) = Len(launchIds),
               message  |-> IF Len(results.ids) = Len(launchIds)
                            THEN [text |-> SuccessMessage, ids |-> <<>>]
                            ELSE [text |-> FailurePrefix,
                                  ids  |-> notIncluded(launchIds, results.ids)],
               launches |-> launchesRead.value])

\* --------------------------------------------------- Mutation.cancelTrip
\* A variant without the `if (!result)` early return.
Mutation_cancelTrip_noEarlyReturn(launchId, result, response) ==
  LET launch == getLaunchById(launchId, response)
  IN  IF launch.kind = "error" THEN launch
      ELSE Ok([success  |-> TRUE,
               message  |-> "trip cancelled",
               launches |-> <<launch.value>>])

\* The resolver, after the store has answered `result`: a failure response
\* without launches when nothing was cancelled, else the launch read back.
Mutation_cancelTrip(launchId, result, response) ==
  IF ~result
  THEN Ok([success |-> FALSE, message |-> "failed to cancel trip"])
  ELSE LET launch == getLaunchById(launchId, response)
       IN  IF launch.kind = "error" THEN launch
           ELSE Ok([success  |-> TRUE,
                    message  |-> "trip cancelled",
                    launches |-> <<launch.value>>])

\* ------------------------------------------------------ booking machine
\* The launch ids a client asks for.
LaunchIdInputs == 1..MaxLaunchId

\* The members of a set of numbers, ascending.
Ascending(S) ==
  CHOOSE s \in [1..Cardinality(S) -> S] :
    \A i, j \in 1..Cardinality(S) : i < j => s[i] < s[j]

\* Upstream holds a record for the ids 1..n, oldest first; requests range
\* over all ids in any order, so they meet ids with and without a record.
BookingUpstreams ==
  {[isArray |-> TRUE, items |-> [i \in 1..n |-> RawLaunch(i, i)]] :
     n \in 0..MaxLaunchId}

InitBooking ==
  /\ upstream \in BookingUpstreams
  /\ users = SetToBag({UserEmail})
  /\ token = <<>>
  /\ inflight = <<>>
  /\ trips = {}
  /\ call = NoCall
  /\ ret = NoCall
  /\ trav = "idle"
  /\ tsize = <<>>
  /\ tafter = Null
  /\ thasMore = FALSE
  /\ acc = <<>>

\* A variant of bookTrips that takes the bookings back when the launches
\* cannot be read back.
BookTrips_rollsBack ==
  \E launchIds \in SeqsUpTo(LaunchIdInputs, MaxIds) :
    \E results \in {userAPI_bookTrips(launchIds, confirm) :
                       confirm \in [1..Len(launchIds) -> BOOLEAN]} :
      /\ trips' = IF getLaunchesByIds(launchIds, upstream).kind = "error"
                  THEN trips ELSE trips \cup Range(results.ids)
      /\ call' = [op |-> "bookTrips", launchIds |-> launchIds,
                  results |-> results,
                  storeCalls |-> <<launchIds>>]
      /\ ret' = Mutation_bookTrips(launchIds, results, upstream)
      /\ UNCHANGED <<token, inflight, users, upstream, trav, tsize, tafter, thasMore, acc>>

\* bookTrips where the store answers with the ids it booked.  `storeCalls`
\* holds the requests the store's bookTrips got.
BookTrips ==
  \E launchIds \in SeqsUpTo(LaunchIdInputs, MaxIds) :
    \E results \in {userAPI_bookTrips(launchIds, confirm) :
                       confirm \in [1..Len(launchIds) -> BOOLEAN]} :
      /\ trips' = trips \cup Range(results.ids)
      /\ call' = [op |-> "bookTrips", launchIds |-> launchIds,
                  results |-> results,
                  storeCalls |-> <<launchIds>>]
      /\ ret' = Mutation_bookTrips(launchIds, results, upstream)
      /\ UNCHANGED <<token, inflight, users, upstream, trav, tsize, tafter, thasMore, acc>>

\* bookTrips where the store answers with nothing and books nothing.
BookTripsAbsent ==
  \E launchIds \in SeqsUpTo(LaunchIdInputs, MaxIds) :
    /\ call' = [op |-> "bookTrips", launchIds |-> launchIds, results |-> Absent,
                storeCalls |-> <<launchIds>>]
    /\ ret' = Mutation_bookTrips(launchIds, Absent, upstream)
    /\ UNCHANGED <<token, inflight, users, upstream, trips, trav, tsize, tafter, thasMore, acc>>

CancelTrip ==
  \E launchId \in LaunchIdInputs :
    LET result == userAPI_cancelTrip(launchId, trips)
    IN  /\ trips' = trips \ {launchId}
        /\ call' = [op |-> "cancelTrip", launchId |-> launchId,
                    result |-> result]
        /\ ret' = Mutation_cancelTrip(launchId, result, upstream)
        /\ UNCHANGED <<token, inflight, users, upstream, trav, tsize, tafter, thasMore, acc>>

NextBooking == BookTrips \/ BookTripsAbsent \/ CancelTrip

SpecBooking == InitBooking /\ [][NextBooking]_vars


\* --------------------------------------------------- booking properties
IsBookTrips == call.op = "bookTrips"
IsCancelTrip == call.op = "cancelTrip"

\* The ids upstream has a record for.
UpstreamIds == {l.id : l \in Range(getAllLaunches(upstream))}

\* The canonical launch of an id upstream has a record for.
LaunchOf(id) == CHOOSE l \in Range(getAllLaunches(upstream)) : l.id = id

\* Every requested id can be read back from upstream.
ReadBackSucceeds == Range(call.launchIds) \subseteq UpstreamIds

\* The store confirmed every requested id.
AllRequestedConfirmed ==
  /\ call.results.present
  /\ Range(call.launchIds) \subseteq Range(call.results.ids)

\* The requested ids the store did not confirm.
Unconfirmed == Range(call.launchIds) \ Range(call.results.ids)

\* No id occurs twice in the request.
NoRepeatedId ==
  \A i, j \in 1..Len(call.launchIds) :
    i # j => call.launchIds[i] # call.launchIds[j]

\* C7: bookTrips reports success = true iff the store confirmed every
\* requested launch id; if at least one was not confirmed, success is false
\* (stated for a non-empty request without repeated ids whose launches can
\* be read back).
C7_SuccessIffAllConfirmed ==
  (IsBookTrips /\ call.launchIds # <<>> /\ NoRepeatedId /\ ReadBackSucceeds)
  => /\ ret.kind = "ok"
     /\ ret.value.success = AllRequestedConfirmed

\* C8: when the store confirms only some of the requested ids (and the
\* launches can be read back), bookTrips returns success = false, a failure
\* message naming exactly the requested ids the store did not confirm, and
\* the launch of every requested id, confirmed or not, in request order.
C8_PartialBooking ==
  (/\ IsBookTrips
   /\ call.results.present
   /\ Unconfirmed # {}
   /\ ReadBackSucceeds)
  => /\ ret.kind = "ok"
     /\ ret.value.success = FALSE
     /\ ret.value.message.text = FailurePrefix
     /\ Range(ret.value.message.ids) = Unconfirmed
     /\ Len(ret.value.launches) = Len(call.launchIds)
     /\ \A i \in 1..Len(call.launchIds) :
          ret.value.launches[i] = LaunchOf(call.launchIds[i])

C8_Witness ==
  /\ IsBookTrips
  /\ call.launchIds = <<2, 1>>
  /\ call.results = Booked(<<1>>)
  /\ ReadBackSucceeds
  /\ ret.kind = "ok"
  /\ ret.value.message.ids = <<2>>
  /\ ret.value.launches = <<LaunchOf(2), LaunchOf(1)>>

\* C9: whatever the store's bookTrips answers without raising (all, some
\* or none of the requested ids, or nothing at all), bookTrips returns a
\* {success, message, launches} response rather than throwing.
C9_AlwaysStructured ==
  (IsBookTrips /\ call.launchIds # <<>> /\ ReadBackSucceeds)
  => /\ ret.kind = "ok"
     /\ DOMAIN ret.value = {"success", "message", "launches"}
     /\ ret.value.success \in BOOLEAN

\* C10: cancelTrip answers success = false with the failure message and no
\* launches when the store reports no matching booking, and success = true
\* with exactly the launch of that id when the store reports it removed
\* (and that launch can be read back).
C10_CancelTrip ==
  IsCancelTrip =>
    /\ ~call.result =>
         /\ ret.kind = "ok"
         /\ ret.value.success = FALSE
         /\ ret.value.message = "failed to cancel trip"
         /\ ~Has(ret.value, "launches")
    /\ (call.result /\ call.launchId \in UpstreamIds) =>
         /\ ret.kind = "ok"
         /\ ret.value.success = TRUE
         /\ ret.value.message = "trip cancelled"
         /\ ret.value.launches = <<LaunchOf(call.launchId)>>

C10_Witness ==
  /\ IsCancelTrip
  /\ call.result
  /\ call.launchId \in UpstreamIds
  /\ call.launchId \notin trips
  /\ ret.kind = "ok"
  /\ ret.value.success

\* C26: for every requested id list, repeated ids included, and every list
\* of confirmed ids the store answers with, the success flag and the
\* message of the response agree: success is true exactly when the message
\* is the success message, and when success is false the message names at
\* least one requested id the store did not confirm.
C26_SuccessMatchesMessage ==
  (IsBookTrips /\ call.results.present /\ ReadBackSucceeds)
  => /\ ret.kind = "ok"
     /\ ret.value.success = (ret.value.message.text = SuccessMessage)
     /\ ~ret.value.success =>
          \E id \in Range(ret.value.message.ids) : id \in Unconfirmed

\* C27: bookTrips asks the store before it reads the launches back and
\* takes nothing back: when the store has confirmed ids and the read-back
\* of a requested id fails, the mutation ends in an error, the confirmed
\* ids are in the user's trip set, and the store's bookTrips was called
\* exactly once.
C27_NoCompensation ==
  (/\ IsBookTrips
   /\ call.results.present
   /\ call.results.ids # <<>>
   /\ ~ReadBackSucceeds)
  => /\ ret.kind = "error"
     /\ Range(call.results.ids) \subseteq trips
     /\ call.storeCalls = <<call.launchIds>>

C27_Witness ==
  /\ IsBookTrips
  /\ call.launchIds = <<1, 2>>
  /\ call.results = Booked(<<1>>)
  /\ UpstreamIds = {1}
  /\ ret.kind = "error"
  /\ trips = {1}


\* ------------------------------------------------------- field resolvers
\* JavaScript values of the resolvers below, tagged with their type.
Undefined   == [type |-> "undefined"]
NullValue   == [type |-> "null"]
Bool(b)     == [type |-> "boolean", value |-> b]
Array(s)    == [type |-> "array", items |-> s]

\* context.user: null, or the user record of the operation.
NoUser      == NullValue
TheUser     == [type |-> "user", id |-> 1]

\* userAPI.isBookedOnLaunch: false without a user, else whether the user
\* has booked launchId.
userAPI_isBookedOnLaunch(launchId, user, booked) ==
  IF user = NoUser THEN Ok(Bool(FALSE)) ELSE Ok(Bool(launchId \in booked))

\* userAPI.getLaunchIdsByUser: the booked ids, in the store's order.
userAPI_getLaunchIdsByUser(booked) == Ascending(booked)

\* What a call of the user store settles to when the store cannot be
\* reached.
StoreDown == Throw("StoreError")

\* A variant of Launch.isBooked that reads the user's id off the context
\* itself.
Launch_isBooked_readsUserId(launch, user, booked, storeUp) ==
  IF user = NoUser THEN Throw("TypeError") ELSE Ok(Undefined)

\* Launch.isBooked: the async arrow function calls isBookedOnLaunch in a
\* block body without `return` and without `await`, so the promise of the
\* store call is dropped, fulfilled or rejected, and the resolver fulfils
\* with undefined.
Launch_isBooked(launch, user, booked, storeUp) ==
  LET dropped == IF storeUp
                 THEN userAPI_isBookedOnLaunch(launch.id, user, booked)
                 ELSE StoreDown
  IN  Ok(Undefined)

\* A variant of Mission.missionPatch whose default size is SMALL.
Mission_missionPatch_defaultSmall(mission, args) ==
  LET size == IF ~args.given THEN "SMALL"
              ELSE IF Has(args.value, "size") THEN args.value.size
              ELSE Null
  IN  IF size = "SMALL" THEN mission.missionPatchSmall
      ELSE mission.missionPatchLarge

\* Mission.missionPatch: `{ size } = { size: "LARGE" }` takes the default
\* object only when no argument object is passed at all.
Mission_missionPatch(mission, args) ==
  LET size == IF ~args.given THEN "LARGE"
              ELSE IF Has(args.value, "size") THEN args.value.size
              ELSE Null
  IN  IF size = "SMALL" THEN mission.missionPatchSmall
      ELSE mission.missionPatchLarge

\* Query.launch: whatever getLaunchById settles to.
Query_launch(id, response) == getLaunchById(id, response)

\* A variant of User.trips that returns nothing for a user without trips.
User_trips_returnsNothing(stored, response) ==
  IF stored.kind = "error"
  THEN [result |-> stored, lookups |-> <<>>]
  ELSE IF Len(stored.value) = 0
  THEN [result |-> Ok(Undefined), lookups |-> <<>>]
  ELSE LET found == getLaunchesByIds(stored.value, response)
       IN  [result  |-> IF found.kind = "ok" THEN Ok(Array(found.value))
                        ELSE found,
            lookups |-> stored.value]

\* User.trips, `stored` being what getLaunchIdsByUser settles to: the
\* awaited rejection is rethrown; [] without a lookup when there are no
\* ids, else what getLaunchesByIds settles to.  `lookups` are the ids it
\* asks upstream for.
User_trips(stored, response) ==
  IF stored.kind = "error"
  THEN [result |-> stored, lookups |-> <<>>]
  ELSE IF Len(stored.value) = 0
  THEN [result |-> Ok(Array(<<>>)), lookups |-> <<>>]
  ELSE LET found == getLaunchesByIds(stored.value, response)
       IN  [result  |-> IF found.kind = "ok" THEN Ok(Array(found.value))
                        ELSE found,
            lookups |-> stored.value]

\* ------------------------------------------------------ resolver machine
\* The missions a missionPatch is asked of: one with both patches, one
\* with only a large and one with only a small patch.
Missions ==
  {[name |-> "m", missionPatchSmall |-> sm, missionPatchLarge |-> lg] :
     sm \in {Links.mission_patch_small, Null},
     lg \in {Links.mission_patch, Null}}

\* The second argument of missionPatch: none at all, or an object with or
\* without a size.
PatchArgs ==
  {[given |-> FALSE]}
    \cup {[given |-> TRUE, value |-> v] :
            v \in {[x \in {} |-> x], [size |-> "SMALL"], [size |-> "LARGE"]}}

\* The user has booked any set of launches before the operation; the
\* REST source answers, or cannot be reached.
InitResolvers ==
  /\ upstream \in BookingUpstreams \cup {Unavailable}
  /\ users = SetToBag({UserEmail})
  /\ token = <<>>
  /\ inflight = <<>>
  /\ trips \in SUBSET LaunchIdInputs
  /\ call = NoCall
  /\ ret = NoCall
  /\ trav = "idle"
  /\ tsize = <<>>
  /\ tafter = Null
  /\ thasMore = FALSE
  /\ acc = <<>>

\* isBooked of a launch; the store answers, or cannot be reached.
IsBooked ==
  \E launch \in Range(getAllLaunches(upstream)), user \in {NoUser, TheUser},
     storeUp \in BOOLEAN :
    /\ call' = [op |-> "isBooked", launch |-> launch, user |-> user,
                storeUp |-> storeUp]
    /\ ret' = Launch_isBooked(launch, user, trips, storeUp)
    /\ UNCHANGED <<token, inflight, users, upstream, trips, trav, tsize, tafter, thasMore, acc>>

MissionPatch ==
  \E mission \in Missions, args \in PatchArgs :
    /\ call' = [op |-> "missionPatch", mission |-> mission, args |-> args]
    /\ ret' = Ok(Mission_missionPatch(mission, args))
    /\ UNCHANGED <<token, inflight, users, upstream, trips, trav, tsize, tafter, thasMore, acc>>

LaunchById ==
  \E id \in LaunchIdInputs :
    /\ call' = [op |-> "launch", id |-> id]
    /\ ret' = Query_launch(id, upstream)
    /\ UNCHANGED <<token, inflight, users, upstream, trips, trav, tsize, tafter, thasMore, acc>>

UserTrips ==
  \E storeUp \in BOOLEAN :
    \E answer \in {User_trips(IF storeUp
                               THEN Ok(userAPI_getLaunchIdsByUser(trips))
                               ELSE StoreDown, upstream)} :
      /\ call' = [op |-> "trips", lookups |-> answer.lookups,
                  storeUp |-> storeUp]
      /\ ret' = answer.result
      /\ UNCHANGED <<token, inflight, users, upstream, trips, trav, tsize, tafter, thasMore, acc>>

NextResolvers == IsBooked \/ MissionPatch \/ LaunchById \/ UserTrips

SpecResolvers == InitResolvers /\ [][NextResolvers]_vars


\* ---------------------------------------------------- resolver properties
IsIsBooked == call.op = "isBooked"
IsMissionPatch == call.op = "missionPatch"
IsLaunchById == call.op = "launch"
IsUserTrips == call.op = "trips"

\* C11: isBooked(launch) resolves to true iff launch.id is in the current
\* user's trip set, to false when the operation is unauthenticated, and so
\* always to a boolean.
C11_IsBookedBoolean ==
  IsIsBooked =>
    /\ ret.kind = "ok"
    /\ ret.value = Bool(call.user # NoUser /\ call.launch.id \in trips)

\* C12: with an anonymous context, resolving isBooked for any launch does
\* not throw: the resolver completes.
C12_AnonymousIsBooked ==
  (IsIsBooked /\ call.user = NoUser) => ret.kind = "ok"

C12_Witness ==
  /\ IsIsBooked
  /\ call.user = NoUser
  /\ call.launch.id \in trips
  /\ ret.kind = "ok"

\* C13: missionPatch returns the small patch exactly when size is SMALL,
\* also when a large patch is present, and the large patch for size LARGE,
\* for an argument object without size and for no argument object at all.
C13_MissionPatch ==
  IsMissionPatch =>
    /\ ret.kind = "ok"
    /\ ret.value =
         IF /\ call.args.given
            /\ Has(call.args.value, "size")
            /\ call.args.value.size = "SMALL"
         THEN call.mission.missionPatchSmall
         ELSE call.mission.missionPatchLarge

C13_Witness ==
  /\ IsMissionPatch
  /\ ~call.args.given
  /\ call.mission.missionPatchSmall = Links.mission_patch_small
  /\ call.mission.missionPatchLarge = Links.mission_patch
  /\ ret.value = Links.mission_patch

\* C14: launch(id) returns null, without an error, for every id the REST
\* source answers no record for.
C14_LaunchNotFound ==
  (IsLaunchById /\ upstream # Unavailable /\ call.id \notin UpstreamIds)
  => /\ ret.kind = "ok"
     /\ ret.value = NullValue

\* The booked ids upstream has a record of, in the store's order.
FoundTrips == Ascending(trips \cap UpstreamIds)

\* C15: User.trips does not fail when upstream has no record of some
\* booked id: those ids are dropped and the launches found are returned
\* (the store and the REST source both answering).
C15_TripsDropsMissing ==
  (IsUserTrips /\ call.storeUp /\ upstream # Unavailable) =>
    /\ ret.kind = "ok"
    /\ ret.value = Array([i \in 1..Len(FoundTrips) |-> LaunchOf(FoundTrips[i])])

\* C16: User.trips returns an empty list, never null, when the store
\* answers that the user has no booked launch ids, and asks upstream for no
\* launch.
C16_NoTrips ==
  (IsUserTrips /\ call.storeUp /\ trips = {})
  => /\ ret = Ok(Array(<<>>))
     /\ call.lookups = <<>>

C16_Witness ==
  /\ IsUserTrips
  /\ call.storeUp
  /\ trips = {}
  /\ UpstreamIds # {}
  /\ ret = Ok(Array(<<>>))

\* A call the operation issued has failed: the store call of isBooked or
\* trips, or a launch lookup of launch(id) or trips.
FailedCall ==
  \/ (IsIsBooked \/ IsUserTrips) /\ ~call.storeUp
  \/ IsLaunchById /\ upstream = Unavailable
  \/ IsUserTrips /\ call.lookups # <<>> /\ upstream = Unavailable

\* C23: no resolver turns a failed REST or store call into a null, empty
\* or undefined result: when a call the operation issues fails, the
\* operation ends with an error.
C23_FailurePropagates ==
  FailedCall => ret.kind = "error"


\* ------------------------------------------- order and cursor properties
\* The launch timestamp a cursor was derived from.
TimeOf(launch) ==
  CHOOSE t \in 1..(MaxTime + DefaultPageSize + 2) : ToString(t) = launch.cursor

\* C18: whatever the order of the upstream records, the sequence the
\* launches query hands to the paginator is reverse-chronological: launch
\* timestamps never increase from first to last.
C18_ReverseChronological ==
  IsLaunchesQuery =>
    \A i, j \in 1..Len(AllLaunches) :
      i < j => TimeOf(AllLaunches[i]) >= TimeOf(AllLaunches[j])

\* C19: in the sequence of normalized launches of one upstream fetch, no
\* two distinct launches share a cursor.
C19_UniqueCursors ==
  IsLaunchesQuery =>
    \A i, j \in 1..Len(getAllLaunches(upstream)) :
      getAllLaunches(upstream)[i].id # getAllLaunches(upstream)[j].id
        => getAllLaunches(upstream)[i].cursor # getAllLaunches(upstream)[j].cursor


\* The index of the first launch of the paginated sequence with cursor c.
FirstIndexOf(c) ==
  CHOOSE i \in 1..Len(AllLaunches) :
    /\ AllLaunches[i].cursor = c
    /\ \A j \in 1..(i - 1) : AllLaunches[j].cursor # c

\* C25: when `after` is the cursor of a launch of the sequence of N
\* launches, the first such launch being the i-th, the page is the run of
\* the min(pageSize, N - i) launches that follow it, in their order, so it
\* is never longer than pageSize; without a pageSize, 20 is used.
C25_PageContents ==
  (IsLaunchesQuery /\ Has(call.args, "after") /\ call.args.after \in KnownCursors)
  => /\ ret.kind = "ok"
     /\ ret.value.launches =
          SubSeq(AllLaunches, FirstIndexOf(call.args.after) + 1,
                 FirstIndexOf(call.args.after)
                   + Min(PageSizeOf(call.args),
                         Len(AllLaunches) - FirstIndexOf(call.args.after)))
     /\ Len(ret.value.launches) <= PageSizeOf(call.args)
     /\ ~Has(call.args, "pageSize") => Len(ret.value.launches) <= 20

C25_Witness ==
  /\ IsLaunchesQuery
  /\ ~Has(call.args, "pageSize")
  /\ Has(call.args, "after")
  /\ Len(AllLaunches) = 22
  /\ call.args.after = AllLaunches[1].cursor
  /\ Len(ret.value.launches) = 20
  /\ ret.value.launches[1] = AllLaunches[2]
  /\ ret.value.hasMore

\* -------------------------------------------------- normalizer machine
\* The record of a raw launch restricted to the fields in D.
WithFields(launch, D) == [f \in D |-> launch[f]]

\* Raw records with any of their fields absent; flight_number may be 0.
RawRecords ==
  {WithFields(RawLaunch(flight, time), D) :
     flight \in 0..MaxLaunchId, time \in 1..MaxTime,
     D \in SUBSET DOMAIN RawLaunch(0, 1)}

\* Upstream answers with one raw record.
InitNormalize ==
  /\ upstream \in {[isArray |-> TRUE, items |-> <<raw>>] : raw \in RawRecords}
  /\ users = EmptyBag
  /\ token = <<>>
  /\ inflight = <<>>
  /\ trips = {}
  /\ call = NoCall
  /\ ret = NoCall
  /\ trav = "idle"
  /\ tsize = <<>>
  /\ tafter = Null
  /\ thasMore = FALSE
  /\ acc = <<>>

\* launchReducer applied to the record.
Normalize ==
  /\ call' = [op |-> "normalize", launch |-> upstream.items[1]]
  /\ ret' = launchReducerCall(upstream.items[1])
  /\ UNCHANGED <<token, inflight, users, upstream, trips, trav, tsize, tafter, thasMore, acc>>

NextNormalize == Normalize

SpecNormalize == InitNormalize /\ [][NextNormalize]_vars

IsNormalize == call.op = "normalize"

\* The fields of a raw record that are not nested objects.
ScalarFields == {"flight_number", "launch_date_unix", "mission_name"}

\* C17: launchReducer does not throw for a record whose nested objects
\* launch_site, links or rocket are absent: it returns a launch in which
\* the fields of each absent nested object are null.
C17_NormalizeTotal ==
  (IsNormalize /\ ScalarFields \subseteq DOMAIN call.launch) =>
    /\ ret.kind = "ok"
    /\ ~Has(call.launch, "launch_site") => ret.value.site = Null
    /\ ~Has(call.launch, "links") =>
         /\ ret.value.mission.missionPatchSmall = Null
         /\ ret.value.mission.missionPatchLarge = Null
    /\ ~Has(call.launch, "rocket") =>
         /\ ret.value.rocket.id = Null
         /\ ret.value.rocket.name = Null
         /\ ret.value.rocket.type = Null

\* ------------------------------------------------------- auth context
\* The base64 alphabet, value 0 first.
B64Alphabet ==
  <<"A", "B", "C", "D", "E", "F", "G", "H", "I", "J", "K", "L", "M",
    "N", "O", "P", "Q", "R", "S", "T", "U", "V", "W", "X", "Y", "Z",
    "a", "b", "c", "d", "e", "f", "g", "h", "i", "j", "k", "l", "m",
    "n", "o", "p", "q", "r", "s", "t", "u", "v", "w", "x", "y", "z",
    "0", "1", "2", "3", "4", "5", "6", "7", "8", "9", "+", "/">>

B64Value(c) == CHOOSE v \in 0..63 : B64Alphabet[v + 1] = c

\* The padding character of base64.
Pad == "="

\* The characters of a base64 string before its first padding character.
beforePadding(auth) ==
  IF \E i \in 1..Len(auth) : auth[i] = Pad
  THEN SubSeq(auth, 1, (CHOOSE i \in 1..Len(auth) :
                          /\ auth[i] = Pad
                          /\ \A j \in 1..(i - 1) : auth[j] # Pad) - 1)
  ELSE auth

\* Buffer.from(auth, "base64"): decoding ends at the first "="; every four
\* characters give three bytes, two trailing characters give one byte,
\* three give two, one gives none.  A string is the sequence of its
\* characters.
base64Decode(auth) ==
  LET body     == beforePadding(auth)
      n        == Len(body)
      sextet(i) == IF i <= n THEN B64Value(body[i]) ELSE 0
      group(g) == sextet(4 * g + 1) * 262144 + sextet(4 * g + 2) * 4096
                    + sextet(4 * g + 3) * 64 + sextet(4 * g + 4)
      tail     == IF n % 4 = 2 THEN 1 ELSE IF n % 4 = 3 THEN 2 ELSE 0
      shift(j) == IF j = 0 THEN 65536 ELSE IF j = 1 THEN 256 ELSE 1
  IN  [k \in 1..((n \div 4) * 3 + tail) |->
         (group((k - 1) \div 3) \div shift((k - 1) % 3)) % 256]

\* buffer.toString("ascii"): the low seven bits of every byte, as
\* character codes.
toAscii(bytes) == [k \in 1..Len(bytes) |-> bytes[k] % 128]

\* Buffer.from(email): the UTF-8 bytes of the string, one byte per
\* character for the ASCII characters emails are made of here.
utf8Bytes(email) == email

\* buffer.toString("base64"): every three bytes give four characters; a
\* last group of one byte gives two characters and "==", of two bytes
\* three characters and "=".
base64Encode(bytes) ==
  LET n         == Len(bytes)
      byte(i)   == IF i <= n THEN bytes[i] ELSE 0
      group(g)  == byte(3 * g + 1) * 65536 + byte(3 * g + 2) * 256
                     + byte(3 * g + 3)
      shift(j)  == IF j = 0 THEN 262144 ELSE IF j = 1 THEN 4096
                   ELSE IF j = 2 THEN 64 ELSE 1
      given(g)  == IF n - 3 * g >= 3 THEN 3 ELSE n - 3 * g
  IN  [k \in 1..(((n + 2) \div 3) * 4) |->
         LET g == (k - 1) \div 4
             j == (k - 1) % 4
         IN  IF j > given(g) THEN Pad
             ELSE B64Alphabet[((group(g) \div shift(j)) % 64) + 1]]

\* Character codes of "@", and of the letters and digits.
AtSign == 64
IsAlphaNumeric(c) == c \in (48..57) \cup (65..90) \cup (97..122)

\* isEmail.validate over the addresses decoding can give here: one "@"
\* between a non-empty local part and a non-empty domain, both of letters
\* and digits.
isEmail_validate(email) ==
  \E at \in 2..(Len(email) - 1) :
    /\ email[at] = AtSign
    /\ \A k \in 1..Len(email) : k # at => IsAlphaNumeric(email[k])

\* store.users.findOrCreate({ where: { email } }): the row of that email,
\* created when the table has none.
findOrCreate(email, table) ==
  [rows  |-> <<[type |-> "user", email |-> email]>>,
   table |-> IF BagIn(email, table) THEN table
             ELSE table (+) SetToBag({email})]

\* A variant of context that inserts a row for the email without looking
\* for one first.
context_createsRow(req, table) ==
  LET auth  == IF Has(req, "headers") /\ Has(req.headers, "authorization")
               THEN req.headers.authorization ELSE <<>>
      email == toAscii(base64Decode(auth))
  IN  IF ~isEmail_validate(email)
      THEN [result |-> Ok([user |-> NoUser]), storeCalls |-> <<>>,
            table |-> table]
      ELSE [result     |-> Ok([user |-> [type |-> "user", email |-> email]]),
            storeCalls |-> <<email>>,
            table      |-> table (+) SetToBag({email})]

\* A variant of context that asks the store before validating the email.
context_findsFirst(req, table) ==
  LET auth   == IF Has(req, "headers") /\ Has(req.headers, "authorization")
                THEN req.headers.authorization ELSE <<>>
      email  == toAscii(base64Decode(auth))
      answer == findOrCreate(email, table)
  IN  IF ~isEmail_validate(email)
      THEN [result |-> Ok([user |-> NoUser]), storeCalls |-> <<email>>,
            table |-> answer.table]
      ELSE [result     |-> Ok([user |-> IF Len(answer.rows) # 0
                                        THEN answer.rows[1] ELSE NoUser]),
            storeCalls |-> <<email>>,
            table      |-> answer.table]

\* context({ req }): the header, or "" when there is none, is decoded; an
\* invalid email gives {user: null} at once, a valid one the first row
\* findOrCreate answers.  `storeCalls` are the emails the store is asked
\* for, `table` the users table afterwards.
context(req, table) ==
  LET auth  == IF Has(req, "headers") /\ Has(req.headers, "authorization")
               THEN req.headers.authorization ELSE <<>>
      email == toAscii(base64Decode(auth))
  IN  IF ~isEmail_validate(email)
      THEN [result |-> Ok([user |-> NoUser]), storeCalls |-> <<>>,
            table |-> table]
      ELSE LET answer == findOrCreate(email, table)
           IN  [result     |-> Ok([user |-> IF Len(answer.rows) # 0
                                            THEN answer.rows[1] ELSE NoUser]),
                storeCalls |-> <<email>>,
                table      |-> answer.table]

\* The characters of the tokens a client sends: "UUBU" is "Q@T" and "UUBB"
\* is "Q@A"; the other tokens decode to no address.
TokenChars == {"U", "B"}

\* A request without headers, without an Authorization header, or with a
\* token ("" included).
Requests ==
  {[url |-> "/"], [url |-> "/", headers |-> [host |-> "localhost"]]}
    \cup {[url |-> "/", headers |-> [host |-> "localhost", authorization |-> t]] :
            t \in SeqsUpTo(TokenChars, MaxTokenLen)}

\* The users table holds the users of earlier operations.
InitContext ==
  /\ upstream = [isArray |-> TRUE, items |-> <<>>]
  /\ users \in {SetToBag(S) : S \in SUBSET {UserEmail, <<97, 64, 98>>}}
  /\ token = <<>>
  /\ inflight = <<>>
  /\ trips = {}
  /\ call = NoCall
  /\ ret = NoCall
  /\ trav = "idle"
  /\ tsize = <<>>
  /\ tafter = Null
  /\ thasMore = FALSE
  /\ acc = <<>>

\* The context of one inbound operation is built.
Context ==
  \E req \in Requests :
    LET built == context(req, users)
    IN  /\ call' = [op |-> "context", req |-> req, before |-> users,
                    storeCalls |-> built.storeCalls]
        /\ ret' = built.result
        /\ users' = built.table
        /\ UNCHANGED <<token, inflight, upstream, trips, trav, tsize, tafter,
                       thasMore, acc>>

NextContext == Context

SpecContext == InitContext /\ [][NextContext]_vars

IsContext == call.op = "context"

\* The Authorization header of the request, "" when there is none.
Credential == IF Has(call.req, "headers") /\ Has(call.req.headers, "authorization")
              THEN call.req.headers.authorization ELSE <<>>

\* The credential decodes to a valid email address.
ValidCredential == isEmail_validate(toAscii(base64Decode(Credential)))

\* C20: when the Authorization header is absent or does not decode to a
\* valid email address, the context is {user: null}, no error is raised,
\* the user store is not asked anything and its table is unchanged.
C20_AnonymousContext ==
  (IsContext /\ ~ValidCredential)
  => /\ ret = Ok([user |-> NoUser])
     /\ call.storeCalls = <<>>
     /\ users = call.before

C20_Witness ==
  /\ IsContext
  /\ Credential = <<"U", "U", "B">>
  /\ ~ValidCredential
  /\ call.before = SetToBag({<<81, 64, 84>>})
  /\ users = call.before
  /\ ret = Ok([user |-> NoUser])


\* ------------------------------------------------------ Mutation.login
\* A JavaScript string value, as the sequence of its characters.
String(s) == [type |-> "string", chars |-> s]

\* userAPI.findOrCreateUser({ email }): the user of that email, found or
\* created; no user for a string that is not an email address.
userAPI_findOrCreateUser(email, table) ==
  IF ~isEmail_validate(email)
  THEN [user |-> NullValue, table |-> table]
  ELSE LET answer == findOrCreate(email, table)
       IN  [user |-> answer.rows[1], table |-> answer.table]

\* A variant of login whose token leaves the padding out.
Mutation_login_unpadded(email, table) ==
  LET found == userAPI_findOrCreateUser(email, table)
  IN  [result |-> IF found.user # NullValue
                  THEN Ok(String(beforePadding(base64Encode(utf8Bytes(email)))))
                  ELSE Ok(Undefined),
       table  |-> found.table]

\* login: the base64 encoding of the email when there is a user, else
\* nothing (the function ends without return).
Mutation_login(email, table) ==
  LET found == userAPI_findOrCreateUser(email, table)
  IN  [result |-> IF found.user # NullValue
                  THEN Ok(String(base64Encode(utf8Bytes(email))))
                  ELSE Ok(Undefined),
       table  |-> found.table]

\* -------------------------------------------------------- login machine
\* The emails a client logs in with: "a@b", "b@a", "ab@c" and "a@bcd"
\* (tokens without padding, with "==" and with "="), and "ab", "@b", "a@"
\* and "", which are no addresses.
LoginEmails ==
  {<<97, 64, 98>>, <<98, 64, 97>>, <<97, 98, 64, 99>>, <<97, 64, 98, 99, 100>>,
   <<97, 98>>, <<64, 98>>, <<97, 64>>, <<>>}

\* The client may hold the token of an earlier login, and the users table
\* may or may not hold that user.
InitLogin ==
  /\ upstream = [isArray |-> TRUE, items |-> <<>>]
  /\ users \in {EmptyBag, SetToBag({<<97, 64, 98>>})}
  /\ token \in {<<>>, base64Encode(<<97, 64, 98>>)}
  /\ inflight = <<>>
  /\ trips = {}
  /\ call = NoCall
  /\ ret = NoCall
  /\ trav = "idle"
  /\ tsize = <<>>
  /\ tafter = Null
  /\ thasMore = FALSE
  /\ acc = <<>>

\* A login mutation; the client keeps the token it gets.
Login ==
  \E email \in LoginEmails :
    \E done \in {Mutation_login(email, users)} :
      /\ call' = [op |-> "login", email |-> email, before |-> users]
      /\ ret' = done.result
      /\ users' = done.table
      /\ token' = IF done.result.value.type = "string"
                  THEN done.result.value.chars ELSE token
      /\ UNCHANGED <<inflight, upstream, trips, trav, tsize, tafter, thasMore,
                     acc>>

\* An operation of the client, with its token in the Authorization header:
\* the context of the operation is built.
Present ==
  \E built \in {context([url |-> "/", headers |-> [host |-> "localhost",
                                                   authorization |-> token]],
                        users)} :
    /\ call' = [op |-> "present", credential |-> token, before |-> users,
                storeCalls |-> built.storeCalls]
    /\ ret' = built.result
    /\ users' = built.table
    /\ UNCHANGED <<token, inflight, upstream, trips, trav, tsize, tafter,
                   thasMore, acc>>

NextLogin == Login \/ Present

SpecLogin == InitLogin /\ [][NextLogin]_vars

\* ------------------------------------------------------ login properties
IsLogin == call.op = "login"
IsPresent == call.op = "present"

\* The valid emails a client logs in with.
ValidLoginEmails == {e \in LoginEmails : isEmail_validate(e)}

\* The email a presented credential is the token of.
EmailOf(credential) ==
  CHOOSE e \in ValidLoginEmails : base64Encode(e) = credential

C22_LoginRoundTrip ==
  /\ (IsLogin /\ call.email \in ValidLoginEmails) =>
       /\ ret = Ok(String(base64Encode(call.email)))
       /\ token = base64Encode(call.email)
       /\ BagIn(call.email, users)
  /\ token # <<>> => \E e \in ValidLoginEmails : token = base64Encode(e)
  /\ (IsPresent /\ call.credential # <<>>) =>
       /\ ret.kind = "ok"
       /\ ret.value.user # NoUser
       /\ base64Encode(ret.value.user.email) = call.credential

C22_Witness ==
  /\ IsPresent
  /\ call.credential = <<"Y", "W", "J", "A", "Y", "w", "=", "=">>
  /\ ret.kind = "ok"
  /\ ret.value.user # NoUser
  /\ ret.value.user.email = <<97, 98, 64, 99>>

\* ------------------------------------------- Launches page (client)
\* The Launches page: useQuery(GET_LAUNCHES) loads the first page, the
\* Load More button calls fetchMore with the cursor the page shows, and
\* updateQuery merges each fetchMore result into the cached result.
\* `acc`, `tafter` and `thasMore` are the launches, cursor and hasMore of
\* the cached result (data.launches), `trav` is what the page renders and
\* `inflight` holds the `after` variable of each unanswered fetchMore.

\* GET_LAUNCHES passes `after` and no pageSize.
GET_LAUNCHES(variables, response) ==
  launches(IF Has(variables, "after") /\ variables.after # Null
           THEN [after |-> variables.after] ELSE <<>>, response)

updateQuery(prev, fetchMoreResult) ==
  [fetchMoreResult EXCEPT
     !.launches = prev.launches \o fetchMoreResult.launches]

\* The server sequence of n launches, oldest first, one launch per time.
ClientUpstream(n) ==
  [isArray |-> TRUE, items |-> [i \in 1..n |-> RawLaunch(i, i)]]

InitClient ==
  /\ upstream \in {ClientUpstream(n) : n \in 0..MaxClientLaunches}
  /\ users = EmptyBag
  /\ token = <<>>
  /\ inflight = <<>>
  /\ trips = {}
  /\ call = NoCall
  /\ ret = NoCall
  /\ trav = "loading"
  /\ tsize = <<>>
  /\ tafter = Null
  /\ thasMore = FALSE
  /\ acc = <<>>

\* The answer to the query of useQuery arrives and the page renders it.
ClientLoad ==
  /\ trav = "loading"
  /\ \E r \in {GET_LAUNCHES(<<>>, upstream)} :
       IF r.kind = "ok"
       THEN /\ trav' = "list"
            /\ acc' = r.value.launches
            /\ tafter' = r.value.cursor
            /\ thasMore' = r.value.hasMore
       ELSE /\ trav' = "error"
            /\ UNCHANGED <<acc, tafter, thasMore>>
  /\ UNCHANGED <<token, inflight, users, upstream, trips, call, ret, tsize>>

\* A click on Load More: the button is rendered while the cached result
\* has hasMore, and the click sends fetchMore with the cached cursor.
LoadMore ==
  /\ trav = "list"
  /\ thasMore
  /\ Len(inflight) < MaxInflight
  /\ inflight' = Append(inflight, tafter)
  /\ UNCHANGED <<token, users, upstream, trips, call, ret, trav, tsize, tafter, thasMore, acc>>

\* The answer to one of the unanswered fetchMore requests arrives, in any
\* order, and updateQuery merges it into the cached result.
FetchMoreResponse ==
  \E i \in 1..Len(inflight) :
    /\ inflight' = [j \in 1..(Len(inflight) - 1) |->
                      IF j < i THEN inflight[j] ELSE inflight[j + 1]]
    /\ \E r \in {GET_LAUNCHES([after |-> inflight[i]], upstream)} :
         IF r.kind = "ok"
         THEN \E data \in {updateQuery([launches |-> acc, cursor |-> tafter,
                                        hasMore |-> thasMore], r.value)} :
                /\ acc' = data.launches
                /\ tafter' = data.cursor
                /\ thasMore' = data.hasMore
         ELSE UNCHANGED <<acc, tafter, thasMore>>
    /\ UNCHANGED <<token, users, upstream, trips, call, ret, trav, tsize>>

NextClient == ClientLoad \/ LoadMore \/ FetchMoreResponse

SpecClient == InitClient /\ [][NextClient]_vars

\* C24: under every interleaving of Load More clicks and fetchMore
\* responses over an unchanged server sequence, the list the Launches page
\* has accumulated shows no launch twice and skips none: it is a prefix of
\* the server's reverse-chronological sequence.
C24_ListIsPrefix ==
  trav = "list"
  => /\ \A i, j \in 1..Len(acc) : i # j => acc[i].id # acc[j].id
     /\ IsPrefix(acc, AllLaunches)

====
